---- MODULE Spec2Model ----
(***************************************************************************)
(* A model of src/1999scraper.py: the streaming table extractor            *)
(* (_TableExtractor), the header-driven row classifier (parse_rows) and    *)
(* the record serializer (Row.to_psv).                                     *)
(*                                                                         *)
(* A Python str is a sequence of one-character strings.  A tag name is a   *)
(* TLA+ string.  Optional[int] is a 1-based index, with NoIdx for None.    *)
(* What html.parser.HTMLParser hands to the handlers is a sequence of      *)
(* events: a start tag, an end tag, or a run of text.                      *)
(***************************************************************************)
EXTENDS Integers, Sequences, FiniteSets, TLC

VARIABLES
    parser,       \* the _TableExtractor instance: its seven attributes
    event,        \* the event the extractor handled last
    nevents,      \* how many events the extractor has handled
    html,         \* the document, as the events HTMLParser.feed delivers
    report_date,  \* parse_rows' report_date argument
    pc,           \* where the caller of parse_rows stands
    out,          \* parse_rows' local list out
    tidx,         \* parse_rows' position in "for table in tables"
    results,      \* what each finished call of parse_rows returned
    lines,        \* the lines written for the first call's rows
    row,          \* a Row handed to to_psv on its own
    psv,          \* what to_psv returned for row
    threads,      \* concurrent calls of parse_rows: each call's own locals
    driver,       \* main's locals: the loop over the days of 1999
    fetcher       \* one call of fetch_html: its arguments and locals

vars == <<parser, event, nevents, html, report_date, pc, out, tidx,
          results, lines, row, psv, threads, driver, fetcher>>

\* The variables of the concurrent calls, of main and of fetch_html.
others == <<threads, driver, fetcher>>

-----------------------------------------------------------------------------
(* Bounds of the model.                                                    *)

MaxEvents == 12
MaxRows == 3
MaxCalls == 2
MaxFieldLen == 3
MaxSegs == 3

-----------------------------------------------------------------------------
(* Strings.                                                                *)

\* str.lower(), on the letters A-Z.
ToLower ==
    ("A" :> "a") @@ ("B" :> "b") @@ ("C" :> "c") @@ ("D" :> "d") @@
    ("E" :> "e") @@ ("F" :> "f") @@ ("G" :> "g") @@ ("H" :> "h") @@
    ("I" :> "i") @@ ("J" :> "j") @@ ("K" :> "k") @@ ("L" :> "l") @@
    ("M" :> "m") @@ ("N" :> "n") @@ ("O" :> "o") @@ ("P" :> "p") @@
    ("Q" :> "q") @@ ("R" :> "r") @@ ("S" :> "s") @@ ("T" :> "t") @@
    ("U" :> "u") @@ ("V" :> "v") @@ ("W" :> "w") @@ ("X" :> "x") @@
    ("Y" :> "y") @@ ("Z" :> "z")

LowerChar(c) == IF c \in DOMAIN ToLower THEN ToLower[c] ELSE c

LowerStr(s) == [i \in 1..Len(s) |-> LowerChar(s[i])]

\* The characters the regular expression \s and str.strip() take as blank.
IsSpace(c) == c \in {" ", "\t", "\n", "\r"}

RECURSIVE LStrip(_)
LStrip(s) ==
    IF s = <<>> THEN <<>>
    ELSE IF IsSpace(Head(s)) THEN LStrip(Tail(s))
    ELSE s

RECURSIVE RStrip(_)
RStrip(s) ==
    IF s = <<>> THEN <<>>
    ELSE IF IsSpace(s[Len(s)]) THEN RStrip(SubSeq(s, 1, Len(s) - 1))
    ELSE s

\* str.strip()
Strip(s) == RStrip(LStrip(s))

\* re.sub(r"\s+", " ", s): every maximal run of blanks becomes one space.
RECURSIVE SubSpaces(_)
SubSpaces(s) ==
    IF s = <<>> THEN <<>>
    ELSE IF IsSpace(Head(s)) THEN <<" ">> \o SubSpaces(LStrip(Tail(s)))
    ELSE <<Head(s)>> \o SubSpaces(Tail(s))

_norm_space(s) == Strip(SubSpaces(s))

\* "".join(parts)
RECURSIVE Join(_)
Join(parts) ==
    IF parts = <<>> THEN <<>> ELSE Head(parts) \o Join(Tail(parts))

\* s.startswith(prefix)
StartsWith(s, prefix) ==
    /\ Len(s) >= Len(prefix)
    /\ SubSeq(s, 1, Len(prefix)) = prefix

\* sub in s
Contains(s, sub) ==
    \E i \in 0..(Len(s) - Len(sub)) : SubSeq(s, i + 1, i + Len(sub)) = sub

\* s.replace(old, new) for a one-character old
ReplaceChar(s, old, new) ==
    [i \in 1..Len(s) |-> IF s[i] = old THEN new ELSE s[i]]

\* The decimal digits of a natural number, as f"{n}" writes them.
Digit(n) == <<"0", "1", "2", "3", "4", "5", "6", "7", "8", "9">>[n + 1]

RECURSIVE FormatInt(_)
FormatInt(n) ==
    IF n < 10 THEN <<Digit(n)>>
    ELSE FormatInt(n \div 10) \o <<Digit(n % 10)>>

-----------------------------------------------------------------------------
(* _TableExtractor.                                                        *)

\* tag.lower(), on the tag names of the model
TagLower(tag) ==
    CASE tag = "TABLE" -> "table"
      [] tag = "TR" -> "tr"
      [] tag = "TD" -> "td"
      [] OTHER -> tag

TableExtractorInit ==
    [in_table |-> 0,
     in_tr |-> FALSE,
     in_cell |-> FALSE,
     cell_buf |-> <<>>,
     current_row |-> <<>>,
     current_table |-> <<>>,
     tables |-> <<>>]

StartTable(p, tag) ==
    IF tag = "table"
    THEN [p EXCEPT !.in_table = @ + 1,
                   !.current_table = IF p.in_table + 1 = 1 THEN <<>> ELSE @]
    ELSE p

StartRow(p, tag) ==
    IF p.in_table >= 1 /\ tag = "tr"
    THEN [p EXCEPT !.in_tr = TRUE, !.current_row = <<>>]
    ELSE p

StartCell(p, tag) ==
    IF p.in_table >= 1 /\ p.in_tr /\ tag \in {"td", "th"}
    THEN [p EXCEPT !.in_cell = TRUE, !.cell_buf = <<>>]
    ELSE p

\* StartBreak adding nothing to the cell.
StartBreakAddsNothing(p, tag) == p

StartBreak(p, tag) ==
    IF p.in_table >= 1 /\ p.in_cell /\ tag \in {"br", "p"}
    THEN [p EXCEPT !.cell_buf = Append(@, <<" ">>)]
    ELSE p

\* The four ifs run in order, each on what the one before it left.
handle_starttag(p, tag) ==
    LET t == TagLower(tag)
    IN StartBreak(StartCell(StartRow(StartTable(p, t), t), t), t)

EndCell(p, tag) ==
    IF p.in_table >= 1 /\ p.in_tr /\ tag \in {"td", "th"} /\ p.in_cell
    THEN [p EXCEPT !.in_cell = FALSE,
                   !.current_row = Append(@, _norm_space(Join(p.cell_buf))),
                   !.cell_buf = <<>>]
    ELSE p

\* any(c.strip() for c in row)
AnyNonBlank(r) == \E i \in 1..Len(r) : Strip(r[i]) # <<>>

\* EndRow keeping a row whose cells are all blank.
EndRowKeepsBlank(p, tag) ==
    IF p.in_table >= 1 /\ tag = "tr" /\ p.in_tr
    THEN [p EXCEPT !.in_tr = FALSE,
                   !.current_table = Append(@, p.current_row),
                   !.current_row = <<>>]
    ELSE p

EndRow(p, tag) ==
    IF p.in_table >= 1 /\ tag = "tr" /\ p.in_tr
    THEN [p EXCEPT !.in_tr = FALSE,
                   !.current_table =
                       IF AnyNonBlank(p.current_row)
                       THEN Append(@, p.current_row) ELSE @,
                   !.current_row = <<>>]
    ELSE p

\* EndTable without its test of the depth.
EndTableUnguarded(p, tag) ==
    IF tag = "table"
    THEN IF p.in_table - 1 = 0
         THEN [p EXCEPT !.in_table = 0,
                        !.tables = IF p.current_table # <<>>
                                   THEN Append(@, p.current_table) ELSE @,
                        !.current_table = <<>>]
         ELSE [p EXCEPT !.in_table = @ - 1]
    ELSE p

EndTable(p, tag) ==
    IF tag = "table" /\ p.in_table >= 1
    THEN IF p.in_table - 1 = 0
         THEN [p EXCEPT !.in_table = 0,
                        !.tables = IF p.current_table # <<>>
                                   THEN Append(@, p.current_table) ELSE @,
                        !.current_table = <<>>]
         ELSE [p EXCEPT !.in_table = @ - 1]
    ELSE p

handle_endtag(p, tag) ==
    LET t == TagLower(tag)
    IN EndTable(EndRow(EndCell(p, t), t), t)

handle_data(p, data) ==
    IF p.in_table >= 1 /\ p.in_cell
    THEN [p EXCEPT !.cell_buf = Append(@, data)]
    ELSE p

\* Events, as HTMLParser delivers them.
StartEv(tag) == [kind |-> "start", tag |-> tag, data |-> <<>>]
EndEv(tag) == [kind |-> "end", tag |-> tag, data |-> <<>>]
DataEv(s) == [kind |-> "data", tag |-> "", data |-> s]
NoEvent == [kind |-> "none", tag |-> "", data |-> <<>>]

\* HTMLParser's dispatch of one event to its handler.
Handle(p, ev) ==
    CASE ev.kind = "start" -> handle_starttag(p, ev.tag)
      [] ev.kind = "end" -> handle_endtag(p, ev.tag)
      [] ev.kind = "data" -> handle_data(p, ev.data)
      [] OTHER -> p

\* parser.feed(html): every event of the document, in order.
RECURSIVE FeedFrom(_, _, _)
FeedFrom(p, doc, i) ==
    IF i > Len(doc) THEN p
    ELSE LET q == Handle(p, doc[i])
         IN \* q = q has TLC compute q before it goes on
            IF q = q THEN FeedFrom(q, doc, i + 1) ELSE q

feed(p, doc) == FeedFrom(p, doc, 1)

-----------------------------------------------------------------------------
(* Row and Row.to_psv.                                                     *)

Date(y, m, d) == [year |-> y, month |-> m, day |-> d]

Row(d, unit, power, reason) ==
    [report_date |-> d, unit |-> unit, power |-> power, reason |-> reason]

\* _safe_psv_field without its replace.
SafePsvFieldStripOnly(s) == Strip(s)

_safe_psv_field(s) == Strip(ReplaceChar(s, "|", " "))

\* The digits of n, padded with zeros on the left to width w.
RECURSIVE ZeroPad(_, _)
ZeroPad(s, w) == IF Len(s) >= w THEN s ELSE ZeroPad(<<"0">> \o s, w)

\* FormatDate with the month and the day padded to two digits.
FormatDatePadded(d) ==
    ZeroPad(FormatInt(d.month), 2) \o <<"/">> \o ZeroPad(FormatInt(d.day), 2)
        \o <<"/">> \o FormatInt(d.year)

\* f"{month}/{day}/{year}"
FormatDate(d) ==
    FormatInt(d.month) \o <<"/">> \o FormatInt(d.day) \o <<"/">>
        \o FormatInt(d.year)

to_psv(r) ==
    FormatDate(r.report_date) \o <<"|">> \o _safe_psv_field(r.unit)
        \o <<"|">> \o _safe_psv_field(r.power)
        \o <<"|">> \o _safe_psv_field(r.reason)

\* The days per month that date + timedelta(days=1) steps through in 1999.
DaysInMonth1999(m) ==
    IF m = 2 THEN 28 ELSE IF m \in {4, 6, 9, 11} THEN 30 ELSE 31

\* d + timedelta(days=1), for a date of 1999
NextDay(d) ==
    IF d.day < DaysInMonth1999(d.month) THEN [d EXCEPT !.day = @ + 1]
    ELSE IF d.month < 12 THEN [d EXCEPT !.month = @ + 1, !.day = 1]
    ELSE Date(d.year + 1, 1, 1)

\* d1 <= d2 on dates
DateLE(d1, d2) ==
    \/ d1.year < d2.year
    \/ d1.year = d2.year /\ d1.month < d2.month
    \/ d1.year = d2.year /\ d1.month = d2.month /\ d1.day <= d2.day

\* The dates iter_dates_1999 yields, as a set: every day of 1999.
Dates1999 ==
    UNION {{Date(1999, m, d) : d \in 1..DaysInMonth1999(m)} : m \in 1..12}

-----------------------------------------------------------------------------
(* parse_rows: the classifier.                                             *)

NoIdx == 0

s_unit == <<"u", "n", "i", "t">>
s_power == <<"p", "o", "w", "e", "r">>
s_reason == <<"r", "e", "a", "s", "o", "n">>
s_comment == <<"c", "o", "m", "m", "e", "n", "t">>

\* lowered = [_norm_space(c).lower() for c in row]
Lowered(r) == [i \in 1..Len(r) |-> LowerStr(_norm_space(r[i]))]

\* IsHeaderRow taking, as the unit column does, a cell that begins with
\* "unit " for the unit cell.
IsHeaderRowLoose(low) ==
    /\ \E i \in 1..Len(low) :
           low[i] = s_unit \/ StartsWith(low[i], s_unit \o <<" ">>)
    /\ \E i \in 1..Len(low) : StartsWith(low[i], s_power) \/ low[i] = s_power

\* The test of line 160 on a lowered row.
IsHeaderRow(low) ==
    /\ \E i \in 1..Len(low) : low[i] = s_unit
    /\ \E i \in 1..Len(low) : StartsWith(low[i], s_power) \/ low[i] = s_power

\* HeaderRowIdx taking the last row that passes the test.
HeaderRowIdxLast(table) ==
    LET hits == {i \in 1..Len(table) : IsHeaderRow(Lowered(table[i]))}
    IN IF hits = {} THEN NoIdx
       ELSE CHOOSE i \in hits : \A j \in hits : i >= j

\* The first row of the table that passes the test; NoIdx when none does.
HeaderRowIdx(table) ==
    LET hits == {i \in 1..Len(table) : IsHeaderRow(Lowered(table[i]))}
    IN IF hits = {} THEN NoIdx
       ELSE CHOOSE i \in hits : \A j \in hits : i <= j

\* The first index whose header passes pred; NoIdx when none does.
\* passes[i] is pred(headers[i]).
_find_col_idx(passes) ==
    LET hits == {i \in 1..Len(passes) : passes[i]}
    IN IF hits = {} THEN NoIdx
       ELSE CHOOSE i \in hits : \A j \in hits : i <= j

IsUnitHeader(h) == h = s_unit \/ StartsWith(h, s_unit \o <<" ">>)
IsPowerHeader(h) == h = s_power \/ StartsWith(h, s_power \o <<" ">>)
IsReasonHeader(h) == Contains(h, s_reason) /\ Contains(h, s_comment)

UnitIdx(headers) ==
    _find_col_idx([i \in 1..Len(headers) |-> IsUnitHeader(headers[i])])
PowerIdx(headers) ==
    _find_col_idx([i \in 1..Len(headers) |-> IsPowerHeader(headers[i])])
ReasonIdx(headers) ==
    _find_col_idx([i \in 1..Len(headers) |-> IsReasonHeader(headers[i])])

\* RowRecords with the reason read from the power column.
RowRecordsReasonFromPower(d, r, unit_idx, power_idx, reason_idx) ==
    IF unit_idx > Len(r) \/ power_idx > Len(r) THEN <<>>
    ELSE LET unit == _norm_space(r[unit_idx])
             power == _norm_space(r[power_idx])
             reason == IF reason_idx # NoIdx /\ reason_idx <= Len(r)
                       THEN _norm_space(r[power_idx]) ELSE <<>>
         IN IF unit = <<>> \/ LowerStr(unit) = s_unit THEN <<>>
            ELSE <<Row(d, unit, power, reason)>>

\* RowRecords without the test for a unit that repeats the header.
RowRecordsKeepsHeaderEcho(d, r, unit_idx, power_idx, reason_idx) ==
    IF unit_idx > Len(r) \/ power_idx > Len(r) THEN <<>>
    ELSE LET unit == _norm_space(r[unit_idx])
             power == _norm_space(r[power_idx])
             reason == IF reason_idx # NoIdx /\ reason_idx <= Len(r)
                       THEN _norm_space(r[reason_idx]) ELSE <<>>
         IN IF unit = <<>> THEN <<>>
            ELSE <<Row(d, unit, power, reason)>>

\* One pass of the loop of line 174: the records (none or one) of row r.
RowRecords(d, r, unit_idx, power_idx, reason_idx) ==
    IF unit_idx > Len(r) \/ power_idx > Len(r) THEN <<>>
    ELSE LET unit == _norm_space(r[unit_idx])
             power == _norm_space(r[power_idx])
             reason == IF reason_idx # NoIdx /\ reason_idx <= Len(r)
                       THEN _norm_space(r[reason_idx]) ELSE <<>>
         IN IF unit = <<>> \/ LowerStr(unit) = s_unit THEN <<>>
            ELSE <<Row(d, unit, power, reason)>>

\* DataRows leaving the loop at the first row that is too short.
RECURSIVE DataRowsStopAtShort(_, _, _, _, _, _)
DataRowsStopAtShort(d, table, i, unit_idx, power_idx, reason_idx) ==
    IF i > Len(table) THEN <<>>
    ELSE IF unit_idx > Len(table[i]) \/ power_idx > Len(table[i]) THEN <<>>
    ELSE RowRecords(d, table[i], unit_idx, power_idx, reason_idx)
             \o DataRowsStopAtShort(d, table, i + 1, unit_idx, power_idx,
                                    reason_idx)

\* The loop of line 174 from row i on.
RECURSIVE DataRows(_, _, _, _, _, _)
DataRows(d, table, i, unit_idx, power_idx, reason_idx) ==
    IF i > Len(table) THEN <<>>
    ELSE RowRecords(d, table[i], unit_idx, power_idx, reason_idx)
             \o DataRows(d, table, i + 1, unit_idx, power_idx, reason_idx)

\* One pass of the loop of line 155: the records of one table.
TableRecords(d, table) ==
    LET header_row_idx == HeaderRowIdx(table)
    IN IF header_row_idx = NoIdx THEN <<>>
       ELSE LET headers == Lowered(table[header_row_idx])
                unit_idx == UnitIdx(headers)
                power_idx == PowerIdx(headers)
                reason_idx == ReasonIdx(headers)
            IN IF headers = <<>> THEN <<>>
               ELSE IF unit_idx = NoIdx \/ power_idx = NoIdx THEN <<>>
               ELSE DataRows(d, table, header_row_idx + 1,
                             unit_idx, power_idx, reason_idx)

-----------------------------------------------------------------------------
(* The documents of the model.                                             *)

t_Unit == <<"U", "n", "i", "t">>
t_Power == <<"P", "o", "w", "e", "r">>
t_PowerPct == <<"P", "o", "w", "e", "r", "(", "%", ")">>
t_Reason == <<"R", "e", "a", "s", "o", "n">>
t_ReasonComment == <<"R", "e", "a", "s", "o", "n", "/", "C", "o", "m", "m", "e", "n", "t">>
t_Name == <<"N", "a", "m", "e">>
t_Unit1 == <<"U", "n", "i", "t", " ", "1">>
t_Unit2 == <<"U", "n", "i", "t", " ", "2">>
t_97 == <<"9", "7">>
t_0 == <<"0">>
t_NA == <<"N", "/", "A">>
t_Refueling == <<"R", "e", "f", "u", "e", "l", "i", "n", "g", " ", "O", "u", "t", "a", "g", "e">>
t_1 == <<"1">>
t_100 == <<"1", "0", "0">>
t_None == <<"N", "o", "n", "e">>
t_UNIT == <<"U", "N", "I", "T">>
t_Blank == <<" ">>
t_UnitName == <<"U", "n", "i", "t", " ", "N", "a", "m", "e">>
t_Empty == <<>>

\* <td>text</td>, as events; an empty cell has no text event.
CellDoc(c) ==
    <<StartEv("td")>> \o (IF c = <<>> THEN <<>> ELSE <<DataEv(c)>>)
        \o <<EndEv("td")>>

CellsDoc(r) == Join([i \in 1..Len(r) |-> CellDoc(r[i])])

\* <tr> cells </tr>
RowDoc(r) == <<StartEv("tr")>> \o CellsDoc(r) \o <<EndEv("tr")>>

\* <table> rows </table>
TableDoc(g) ==
    <<StartEv("table")>> \o Join([i \in 1..Len(g) |-> RowDoc(g[i])])
        \o <<EndEv("table")>>

\* The same table as a page writes it: header cells in <th>, line breaks
\* and indentation between the tags and around each cell's text.
PrettyCellDoc(c, tag) ==
    <<StartEv(tag), DataEv(<<"\n", " ">> \o c \o <<" ", "\n">>), EndEv(tag),
      DataEv(<<"\n">>)>>

PrettyRowDoc(r, tag) ==
    <<StartEv("tr"), DataEv(<<"\n">>)>>
        \o Join([i \in 1..Len(r) |-> PrettyCellDoc(r[i], tag)])
        \o <<EndEv("tr"), DataEv(<<"\n">>)>>

PrettyTableDoc(g) ==
    <<StartEv("html"), StartEv("body"), StartEv("table"), DataEv(<<"\n">>)>>
        \o Join([i \in 1..Len(g) |->
                    PrettyRowDoc(g[i], IF i = 1 THEN "th" ELSE "td")])
        \o <<EndEv("table"), EndEv("body"), EndEv("html")>>

\* A table whose closing tag is missing: the input ends inside it.
UnclosedTableDoc(g) == SubSeq(TableDoc(g), 1, Len(TableDoc(g)) - 1)

\* An outer table with the rows prev and then a row whose cells are
\* before, a cell holding the whole table inner, and after.
NestedDoc(prev, before, inner, after) ==
    <<StartEv("table")>> \o Join([i \in 1..Len(prev) |-> RowDoc(prev[i])])
        \o <<StartEv("tr")>> \o CellsDoc(before)
        \o <<StartEv("td")>> \o TableDoc(inner) \o <<EndEv("td")>>
        \o CellsDoc(after) \o <<EndEv("tr"), EndEv("table")>>

HeaderRows ==
    {<<t_Unit, t_Power, t_ReasonComment>>,
     <<t_Power, t_Unit>>,
     <<t_Name, t_Power>>,
     <<t_UnitName, t_Power>>}

BodyRows ==
    {<<t_Unit1, t_97, t_NA>>,
     <<t_1, t_100, t_None>>,
     <<t_Unit1>>,
     <<t_Empty, t_97>>,
     <<t_Blank, t_Empty>>,
     <<t_UNIT, t_97>>}

ModelRows == HeaderRows \cup BodyRows

\* Every table of at most MaxRows rows drawn from ModelRows.
Grids == UNION {[1..n -> ModelRows] : n \in 0..MaxRows}

SmallGrids ==
    {<<<<t_Unit, t_Power, t_ReasonComment>>, <<t_Unit1, t_97, t_NA>>,
       <<t_Unit2, t_0, t_Refueling>>>>,
     <<<<t_Power, t_Unit>>, <<t_97, t_Unit2>>>>,
     <<<<t_Unit, t_PowerPct, t_Reason>>, <<t_1, t_100, t_None>>>>,
     <<<<t_Unit2, t_0, t_Refueling>>>>}

NestedPrev == {<<>>, <<<<t_Unit, t_Power, t_ReasonComment>>>>}
NestedBefore == {<<>>, <<t_Unit1>>, <<t_Unit1, t_97>>}
NestedAfter == {<<>>, <<t_NA>>}

\* A table whose status rows stop short of the header's reason column.
RaggedGrids ==
    {<<<<t_Unit, t_Power, t_ReasonComment>>, <<t_Unit2, t_0>>,
       <<t_UNIT, t_97>>>>}

GridDocs == {TableDoc(g) : g \in Grids \cup SmallGrids \cup RaggedGrids}
UnclosedDocs == {UnclosedTableDoc(g) : g \in Grids}
PrettyDocs == {PrettyTableDoc(g) : g \in SmallGrids}
TwoTableDocs == {TableDoc(g1) \o TableDoc(g2) : g1, g2 \in SmallGrids}
NestedDocs ==
    {NestedDoc(prev, before, inner, after) :
        prev \in NestedPrev, before \in NestedBefore, inner \in SmallGrids,
        after \in NestedAfter}

\* A cell whose content is text segments with a break tag between each
\* two: <br> and <p> in turn.  An empty segment is no text at all.
SegTexts ==
    {<<"a">>, <<" ", "b">>, <<"c", " ", "\n", "d", " ">>, <<" ">>, <<>>}
SegSeqs == UNION {[1..n -> SegTexts] : n \in 1..MaxSegs}

BreakTag(i) == IF i % 2 = 1 THEN "br" ELSE "p"

SegDoc(seg) == IF seg = <<>> THEN <<>> ELSE <<DataEv(seg)>>

SegsDoc(segs) ==
    Join([i \in 1..Len(segs) |->
             (IF i = 1 THEN <<>> ELSE <<StartEv(BreakTag(i - 1))>>)
                 \o SegDoc(segs[i])])

SegCellDoc(segs) ==
    <<StartEv("table"), StartEv("tr"), StartEv("td")>> \o SegsDoc(segs)
        \o <<EndEv("td"), EndEv("tr"), EndEv("table")>>

SegDocs == {SegCellDoc(segs) : segs \in SegSeqs}

Documents ==
    GridDocs \cup UnclosedDocs \cup PrettyDocs \cup TwoTableDocs
        \cup NestedDocs \cup SegDocs

SampleDates == {Date(1999, 3, 15), Date(1999, 11, 2)}

\* The rows handed to to_psv on its own.  On the sample dates: one field
\* holds any text of at most MaxFieldLen characters and the two others
\* any of FixedFields.  On every date of 1999: one row.
FieldChars == {"a", " ", "|"}
Fields == UNION {[1..n -> FieldChars] : n \in 0..MaxFieldLen}
FixedFields == {<<>>, <<"|">>, <<"a", "|", "a">>, <<" ", "|">>}

PsvRows ==
    {Row(d, x, f, g) : d \in SampleDates, x \in Fields, f \in FixedFields,
                       g \in FixedFields}
        \cup {Row(d, f, x, g) : d \in SampleDates, x \in Fields,
                                f \in FixedFields, g \in FixedFields}
        \cup {Row(d, f, g, x) : d \in SampleDates, x \in Fields,
                                f \in FixedFields, g \in FixedFields}
        \cup {Row(d, t_Unit1, t_97, t_NA) : d \in Dates1999}

\* The events of the scan of Spec.
StartTags == {"table", "tr", "td", "th", "br", "b"}
EndTags == {"table", "tr", "td", "b"}
Texts == {<<"a">>, <<" ">>}

-----------------------------------------------------------------------------
(* Spec: the extractor, fed any sequence of at most MaxEvents events.      *)

NoRow == Row(Date(1999, 1, 1), <<>>, <<>>, <<>>)

\* No concurrent call, no run of main and no call of fetch_html is going
\* on.
NoThreads == <<>>
NoDriver == [pc |-> "none"]
NoFetcher == [pc |-> "none"]

Init ==
    /\ parser = TableExtractorInit
    /\ event = NoEvent
    /\ nevents = 0
    /\ html = <<>>
    /\ report_date = Date(1999, 1, 1)
    /\ pc = "scan"
    /\ out = <<>>
    /\ tidx = 0
    /\ results = <<>>
    /\ lines = <<>>
    /\ row = NoRow
    /\ psv = <<>>
    /\ threads = NoThreads
    /\ driver = NoDriver
    /\ fetcher = NoFetcher

StartTagEvent ==
    \E tag \in StartTags :
        /\ pc = "scan"
        /\ nevents < MaxEvents
        /\ parser' = handle_starttag(parser, tag)
        /\ event' = StartEv(tag)
        /\ nevents' = nevents + 1
        /\ UNCHANGED others
        /\ UNCHANGED <<html, report_date, pc, out, tidx, results, lines,
                       row, psv>>

EndTagEvent ==
    \E tag \in EndTags :
        /\ pc = "scan"
        /\ nevents < MaxEvents
        /\ parser' = handle_endtag(parser, tag)
        /\ event' = EndEv(tag)
        /\ nevents' = nevents + 1
        /\ UNCHANGED others
        /\ UNCHANGED <<html, report_date, pc, out, tidx, results, lines,
                       row, psv>>

DataEvent ==
    \E data \in Texts :
        /\ pc = "scan"
        /\ nevents < MaxEvents
        /\ parser' = handle_data(parser, data)
        /\ event' = DataEv(data)
        /\ nevents' = nevents + 1
        /\ UNCHANGED others
        /\ UNCHANGED <<html, report_date, pc, out, tidx, results, lines,
                       row, psv>>

Next == StartTagEvent \/ EndTagEvent \/ DataEvent

Spec == Init /\ [][Next]_vars

-----------------------------------------------------------------------------
(* SpecParse: parse_rows called MaxCalls times on one document, and the    *)
(* rows of the first call written as main writes them.                     *)

InitParse ==
    /\ parser = TableExtractorInit
    /\ event = NoEvent
    /\ nevents = 0
    /\ html \in Documents
    /\ report_date \in SampleDates
    /\ pc = "idle"
    /\ out = <<>>
    /\ tidx = 0
    /\ results = <<>>
    /\ lines = <<>>
    /\ row = NoRow
    /\ psv = <<>>
    /\ threads = NoThreads
    /\ driver = NoDriver
    /\ fetcher = NoFetcher

\* ParseRowsBegin with the table list shared by all extractors (a class
\* attribute) instead of made anew by __init__.
ParseRowsBeginSharedTables ==
    /\ pc = "idle"
    /\ Len(results) < MaxCalls
    /\ out' = <<>>
    /\ parser' = [TableExtractorInit EXCEPT !.tables = parser.tables]
    /\ pc' = "feed"
    /\ UNCHANGED others
    /\ UNCHANGED <<event, nevents, html, report_date, tidx, results, lines,
                   row, psv>>

\* out = []; parser = _TableExtractor()
ParseRowsBegin ==
    /\ pc = "idle"
    /\ Len(results) < MaxCalls
    /\ out' = <<>>
    /\ parser' = TableExtractorInit
    /\ pc' = "feed"
    /\ UNCHANGED others
    /\ UNCHANGED <<event, nevents, html, report_date, tidx, results, lines,
                   row, psv>>

\* parser.feed(html); tables = parser.tables
Feed ==
    /\ pc = "feed"
    /\ parser' = feed(parser, html)
    /\ tidx' = 1
    /\ pc' = "classify"
    /\ UNCHANGED others
    /\ UNCHANGED <<event, nevents, html, report_date, out, results, lines,
                   row, psv>>

\* ClassifyTable putting a table's records in front of those of the
\* tables before it.
ClassifyTablePrepends ==
    /\ pc = "classify"
    /\ tidx <= Len(parser.tables)
    /\ out' = TableRecords(report_date, parser.tables[tidx]) \o out
    /\ tidx' = tidx + 1
    /\ UNCHANGED others
    /\ UNCHANGED <<parser, event, nevents, html, report_date, pc, results,
                   lines, row, psv>>

\* One pass of "for table in tables".
ClassifyTable ==
    /\ pc = "classify"
    /\ tidx <= Len(parser.tables)
    /\ out' = out \o TableRecords(report_date, parser.tables[tidx])
    /\ tidx' = tidx + 1
    /\ UNCHANGED others
    /\ UNCHANGED <<parser, event, nevents, html, report_date, pc, results,
                   lines, row, psv>>

\* return out
ParseRowsReturn ==
    /\ pc = "classify"
    /\ tidx > Len(parser.tables)
    /\ results' = Append(results, out)
    /\ pc' = "idle"
    /\ UNCHANGED others
    /\ UNCHANGED <<parser, event, nevents, html, report_date, out, tidx,
                   lines, row, psv>>

\* for r in rows: f.write(r.to_psv() + "\n")
WriteRows ==
    /\ pc = "idle"
    /\ Len(results) >= 1
    /\ lines = <<>>
    /\ lines' = [i \in 1..Len(results[1]) |->
                    to_psv(results[1][i]) \o <<"\n">>]
    /\ UNCHANGED others
    /\ UNCHANGED <<parser, event, nevents, html, report_date, pc, out, tidx,
                   results, row, psv>>

NextParse ==
    ParseRowsBegin \/ Feed \/ ClassifyTable \/ ParseRowsReturn \/ WriteRows

SpecParse == InitParse /\ [][NextParse]_vars

-----------------------------------------------------------------------------
(* SpecPsv: to_psv applied to one Row.                                     *)

InitPsv ==
    /\ parser = TableExtractorInit
    /\ event = NoEvent
    /\ nevents = 0
    /\ html = <<>>
    /\ row \in PsvRows
    /\ report_date = row.report_date
    /\ pc = "to_psv"
    /\ out = <<>>
    /\ tidx = 0
    /\ results = <<>>
    /\ lines = <<>>
    /\ psv = <<>>
    /\ threads = NoThreads
    /\ driver = NoDriver
    /\ fetcher = NoFetcher

ToPsv ==
    /\ pc = "to_psv"
    /\ psv' = to_psv(row)
    /\ pc' = "psv_done"
    /\ UNCHANGED others
    /\ UNCHANGED <<parser, event, nevents, html, report_date, out, tidx,
                   results, lines, row>>

NextPsv == ToPsv

SpecPsv == InitPsv /\ [][NextPsv]_vars

\* ---------------------------------------------------------------------
\* Concurrent calls of parse_rows.  Every call has its own locals (out,
\* parser, tables) and the extractor it constructs has its own
\* attributes; the scheduler may switch between the calls before any
\* handler call, so the calls' tag and text events interleave freely.

MaxThreads == 2

ThreadIds == 1..MaxThreads

\* The calls made concurrently: a document and the date it reports on.
ConcCalls ==
    {<<TableDoc(<<<<t_Unit, t_Power>>, <<t_Unit1, t_97>>>>),
       Date(1999, 3, 15)>>,
     <<TableDoc(<<<<t_Power, t_Unit>>, <<t_0, t_Unit2>>>>),
       Date(1999, 11, 2)>>,
     <<UnclosedTableDoc(<<<<t_Unit, t_Power>>, <<t_Unit2, t_100>>>>),
       Date(1999, 3, 15)>>}

\* parse_rows run alone, as a function of its arguments.
RECURSIVE TablesRecords(_, _, _)
TablesRecords(d, tables, i) ==
    IF i > Len(tables) THEN <<>>
    ELSE TableRecords(d, tables[i]) \o TablesRecords(d, tables, i + 1)

parse_rows(d, doc) == TablesRecords(d, feed(TableExtractorInit, doc).tables, 1)

\* The extractor a call scans with: the one it constructed itself.
ParserOfModuleLevel(t) == 1

ParserOf(t) == t

NewCall(call) ==
    [html |-> call[1], report_date |-> call[2], pc |-> "start", pos |-> 0,
     parser |-> TableExtractorInit, out |-> <<>>, tidx |-> 0,
     result |-> <<>>]

InitConc ==
    /\ parser = TableExtractorInit
    /\ event = NoEvent
    /\ nevents = 0
    /\ html = <<>>
    /\ report_date = Date(1999, 1, 1)
    /\ pc = "concurrent"
    /\ out = <<>>
    /\ tidx = 0
    /\ results = <<>>
    /\ lines = <<>>
    /\ row = NoRow
    /\ psv = <<>>
    /\ threads \in [ThreadIds -> {NewCall(c) : c \in ConcCalls}]
    /\ driver = NoDriver
    /\ fetcher = NoFetcher

\* out = [] and parser = _TableExtractor().
ThreadBegin(t) ==
    /\ threads[t].pc = "start"
    /\ threads' = [threads EXCEPT ![ParserOf(t)].parser = TableExtractorInit,
                                  ![t].out = <<>>,
                                  ![t].pc = "feed"]

\* One handler call made by parser.feed(html).
ThreadFeedEvent(t) ==
    /\ threads[t].pc = "feed"
    /\ threads[t].pos < Len(threads[t].html)
    /\ threads' =
        [threads EXCEPT
            ![ParserOf(t)].parser =
                Handle(threads[ParserOf(t)].parser,
                       threads[t].html[threads[t].pos + 1]),
            ![t].pos = threads[t].pos + 1]

\* parser.feed(html) returns; tables = parser.tables.
ThreadFeedReturn(t) ==
    /\ threads[t].pc = "feed"
    /\ threads[t].pos = Len(threads[t].html)
    /\ threads' = [threads EXCEPT ![t].pc = "classify", ![t].tidx = 1]

\* One pass of the loop over the tables.
ThreadClassifyTable(t) ==
    /\ threads[t].pc = "classify"
    /\ threads[t].tidx <= Len(threads[ParserOf(t)].parser.tables)
    /\ threads' =
        [threads EXCEPT
            ![t].out = threads[t].out
                \o TableRecords(threads[t].report_date,
                       threads[ParserOf(t)].parser.tables[threads[t].tidx]),
            ![t].tidx = threads[t].tidx + 1]

\* return out
ThreadReturn(t) ==
    /\ threads[t].pc = "classify"
    /\ threads[t].tidx > Len(threads[ParserOf(t)].parser.tables)
    /\ threads' = [threads EXCEPT ![t].result = threads[t].out,
                                  ![t].pc = "done"]

ThreadStep(t) ==
    /\ pc = "concurrent"
    /\ \/ ThreadBegin(t)
       \/ ThreadFeedEvent(t)
       \/ ThreadFeedReturn(t)
       \/ ThreadClassifyTable(t)
       \/ ThreadReturn(t)
    /\ UNCHANGED <<parser, event, nevents, html, report_date, pc, out, tidx,
                   results, lines, row, psv, driver, fetcher>>

NextConc == \E t \in ThreadIds : ThreadStep(t)

SpecConc == InitConc /\ [][NextConc]_vars

\* ---------------------------------------------------------------------
\* main: the loop over the days of 1999.  One action is one pass of the
\* loop body: the fetch, the parse, the writes and the row count, or the
\* except clause.  The output file is kept as the number of lines
\* written so far and the lines of the last pass; the warnings printed
\* are kept as their number.

\* The most days whose fetch or parse fails in one run.
MaxFailures == 2

\* date(1999, 1, 1) and date(1999, 12, 31) of iter_dates_1999
iter_start == Date(1999, 1, 1)
iter_end == Date(1999, 12, 31)

\* The pages the site serves: a page without a table on the first of a
\* month, a page with two status rows on the 15th and a page with one
\* status row on the other days.
EmptyPage == <<>>
OneRowPage == TableDoc(<<<<t_Unit, t_Power>>, <<t_Unit1, t_97>>>>)
TwoRowPage ==
    TableDoc(<<<<t_Unit, t_Power, t_ReasonComment>>,
               <<t_Unit1, t_97, t_NA>>, <<t_Unit2, t_0, t_Refueling>>>>)

\* parse_rows(d, page) for each page.  parse_rows only copies d into the
\* records it builds, so the records are computed once per page, for the
\* first day, and dated afterwards.
EmptyPageRows == parse_rows(iter_start, EmptyPage)
OneRowPageRows == parse_rows(iter_start, OneRowPage)
TwoRowPageRows == parse_rows(iter_start, TwoRowPage)

Dated(rows, d) ==
    [k \in 1..Len(rows) |-> [rows[k] EXCEPT !.report_date = d]]

RowsOn(d) ==
    IF d.day = 1 THEN Dated(EmptyPageRows, d)
    ELSE IF d.day = 15 THEN Dated(TwoRowPageRows, d)
    ELSE Dated(OneRowPageRows, d)

\* The generator is about to yield `next`; i and d are those of the last
\* pass (none yet).
InitMain ==
    /\ parser = TableExtractorInit
    /\ event = NoEvent
    /\ nevents = 0
    /\ html = <<>>
    /\ report_date = iter_start
    /\ pc = "main"
    /\ out = <<>>
    /\ tidx = 0
    /\ results = <<>>
    /\ lines = <<>>
    /\ row = NoRow
    /\ psv = <<>>
    /\ threads = NoThreads
    /\ driver = [pc |-> "loop", next |-> iter_start, i |-> 0,
                 d |-> iter_start, total_rows |-> 0, written |-> 0,
                 warned |-> 0, last |-> "none"]
    /\ fetcher = NoFetcher

UnchangedByMain ==
    UNCHANGED <<parser, event, nevents, html, report_date, pc, out, tidx,
                results, row, psv, threads, fetcher>>

\* The pass for the day the generator yields next: i and d are bound,
\* and the generator steps to the following day.
NextPass(p) ==
    [p EXCEPT !.i = p.i + 1, !.d = p.next, !.next = NextDay(p.next)]

\* A pass whose fetch_html raises, with the exception propagating out of
\* main.
DayFetchFailsUncaught ==
    /\ pc = "main"
    /\ driver.pc = "loop"
    /\ DateLE(driver.next, iter_end)
    /\ driver.warned < MaxFailures
    /\ driver' = [NextPass(driver) EXCEPT !.last = "fetch_failed",
                                          !.pc = "done"]
    /\ lines' = <<>>
    /\ UnchangedByMain

\* A pass whose fetch_html raises: the except clause prints the warning.
DayFetchFails ==
    /\ pc = "main"
    /\ driver.pc = "loop"
    /\ DateLE(driver.next, iter_end)
    /\ driver.warned < MaxFailures
    /\ driver' = [NextPass(driver) EXCEPT !.last = "fetch_failed",
                                          !.warned = driver.warned + 1]
    /\ lines' = <<>>
    /\ UnchangedByMain

\* A pass whose parse_rows raises: the same except clause.
DayParseFails ==
    /\ pc = "main"
    /\ driver.pc = "loop"
    /\ DateLE(driver.next, iter_end)
    /\ driver.warned < MaxFailures
    /\ driver' = [NextPass(driver) EXCEPT !.last = "parse_failed",
                                          !.warned = driver.warned + 1]
    /\ lines' = <<>>
    /\ UnchangedByMain

\* A pass that fetches a page, parses it, writes one line per row and
\* adds the rows to the count.
DayWritten ==
    LET rows == RowsOn(driver.next)
    IN  /\ pc = "main"
        /\ driver.pc = "loop"
        /\ DateLE(driver.next, iter_end)
        /\ lines' = [k \in 1..Len(rows) |-> to_psv(rows[k]) \o <<"\n">>]
        /\ driver' = [NextPass(driver) EXCEPT
                         !.last = "written",
                         !.written = driver.written + Len(rows),
                         !.total_rows = driver.total_rows + Len(rows)]
        /\ UnchangedByMain

\* The generator is exhausted: the file is closed, DONE is printed and
\* main returns 0.
MainReturn ==
    /\ pc = "main"
    /\ driver.pc = "loop"
    /\ ~DateLE(driver.next, iter_end)
    /\ driver' = [driver EXCEPT !.pc = "done"]
    /\ UNCHANGED lines
    /\ UnchangedByMain

NextMain ==
    DayFetchFails \/ DayParseFails \/ DayWritten \/ MainReturn

\* main is one sequential thread that keeps running: a pass that can be
\* taken is taken.
SpecMain == InitMain /\ [][NextMain]_vars /\ WF_vars(NextMain)

\* ---------------------------------------------------------------------
\* fetch_html.  One action is the cache lookup, one attempt of the retry
\* loop (the curl run, the cache write, the except clause with its sleep)
\* or the raise after the loop.  A delay is kept as its factor of
\* backoff_s, which is the attempt number.

MaxRetries == 5

\* What curl prints for the url.
FetchTexts == {EmptyPage, OneRowPage}

\* cache: "none" for cache_path = None, "miss" for a cache_path that does
\* not exist, "hit" for one that does.  runs counts the curl runs, failed
\* the attempts that ended in the except clause.
InitFetch ==
    /\ parser = TableExtractorInit
    /\ event = NoEvent
    /\ nevents = 0
    /\ html = <<>>
    /\ report_date = iter_start
    /\ pc = "fetch"
    /\ out = <<>>
    /\ tidx = 0
    /\ results = <<>>
    /\ lines = <<>>
    /\ row = NoRow
    /\ psv = <<>>
    /\ threads = NoThreads
    /\ driver = NoDriver
    /\ \E n \in 0..MaxRetries, c \in {"none", "miss", "hit"},
          t \in FetchTexts :
            fetcher = [pc |-> "call", retries |-> n, cache |-> c,
                       cached |-> t, attempt |-> 0, runs |-> 0,
                       failed |-> 0, sleeps |-> <<>>, stdout |-> <<>>,
                       result |-> <<>>]

UnchangedByFetch ==
    UNCHANGED <<parser, event, nevents, html, report_date, pc, out, tidx,
                results, lines, row, psv, threads, driver>>

\* if cache_path and cache_path.exists(): return the cached text
CacheHit ==
    /\ pc = "fetch"
    /\ fetcher.pc = "call"
    /\ fetcher.cache = "hit"
    /\ fetcher' = [fetcher EXCEPT !.result = fetcher.cached,
                                  !.pc = "returned"]
    /\ UnchangedByFetch

\* last_err = None and the for statement: the first attempt, or none when
\* range(1, retries + 1) is empty.
EnterLoop ==
    /\ pc = "fetch"
    /\ fetcher.pc = "call"
    /\ fetcher.cache # "hit"
    /\ fetcher' = IF fetcher.retries >= 1
                  THEN [fetcher EXCEPT !.attempt = 1, !.pc = "try"]
                  ELSE [fetcher EXCEPT !.pc = "raise"]
    /\ UnchangedByFetch

\* An attempt whose curl run exits with 0 and whose cache write, if any,
\* goes through: return html.
AttemptSucceeds ==
    \E text \in FetchTexts :
        /\ pc = "fetch"
        /\ fetcher.pc = "try"
        /\ fetcher' = [fetcher EXCEPT !.runs = fetcher.runs + 1,
                                      !.stdout = text,
                                      !.result = text,
                                      !.cache = IF fetcher.cache = "miss"
                                                THEN "hit" ELSE @,
                                      !.cached = IF fetcher.cache = "miss"
                                                 THEN text ELSE @,
                                      !.pc = "returned"]
        /\ UnchangedByFetch

\* The except clause sleeping after every failed attempt, the last one
\* too.
ExceptClauseSleepsAlways(f) ==
    [f EXCEPT !.failed = f.failed + 1,
              !.sleeps = Append(f.sleeps, f.attempt),
              !.attempt = IF f.attempt < f.retries THEN f.attempt + 1 ELSE @,
              !.pc = IF f.attempt < f.retries THEN "try" ELSE "raise"]

\* except BaseException: last_err = e; if attempt < retries: sleep and
\* continue with the next attempt; otherwise break.
ExceptClause(f) ==
    IF f.attempt < f.retries
    THEN [f EXCEPT !.failed = f.failed + 1,
                   !.sleeps = Append(f.sleeps, f.attempt),
                   !.attempt = f.attempt + 1]
    ELSE [f EXCEPT !.failed = f.failed + 1, !.pc = "raise"]

\* An attempt whose curl run exits with a non-zero code: line 125 raises.
AttemptCurlFails ==
    /\ pc = "fetch"
    /\ fetcher.pc = "try"
    /\ fetcher' = ExceptClause([fetcher EXCEPT !.runs = fetcher.runs + 1])
    /\ UnchangedByFetch

\* An attempt whose curl run exits with 0 but whose cache write raises.
AttemptCacheWriteFails ==
    \E text \in FetchTexts :
        /\ pc = "fetch"
        /\ fetcher.pc = "try"
        /\ fetcher.cache = "miss"
        /\ fetcher' = ExceptClause([fetcher EXCEPT !.runs = fetcher.runs + 1,
                                                   !.stdout = text])
        /\ UnchangedByFetch

\* raise RuntimeError after the loop
RaiseAfterLoop ==
    /\ pc = "fetch"
    /\ fetcher.pc = "raise"
    /\ fetcher' = [fetcher EXCEPT !.pc = "raised"]
    /\ UnchangedByFetch

NextFetch ==
    \/ CacheHit
    \/ EnterLoop
    \/ AttemptSucceeds
    \/ AttemptCurlFails
    \/ AttemptCacheWriteFails
    \/ RaiseAfterLoop

\* The call is one sequential thread and every curl run exits: a step
\* that can be taken is taken.
SpecFetch == InitFetch /\ [][NextFetch]_vars /\ WF_vars(NextFetch)

-----------------------------------------------------------------------------
(* What the claims speak of.                                               *)

\* The number of occurrences of character c in s.
CountChar(s, c) == Cardinality({i \in 1..Len(s) : s[i] = c})

\* The positions of character c in s, in ascending order.
RECURSIVE Positions(_, _, _)
Positions(s, c, i) ==
    IF i > Len(s) THEN <<>>
    ELSE (IF s[i] = c THEN <<i>> ELSE <<>>) \o Positions(s, c, i + 1)

\* s split at every occurrence of c, as a reader of the line splits it.
SplitOn(s, c) ==
    LET cuts == <<0>> \o Positions(s, c, 1) \o <<Len(s) + 1>>
    IN [k \in 1..(Len(cuts) - 1) |-> SubSeq(s, cuts[k] + 1, cuts[k + 1] - 1)]

IsDigit(c) == c \in {"0", "1", "2", "3", "4", "5", "6", "7", "8", "9"}
AllDigits(s) == Len(s) >= 1 /\ \A i \in 1..Len(s) : IsDigit(s[i])
DigitValue(c) == CHOOSE n \in 0..9 : Digit(n) = c

\* The number a string of digits reads as.
RECURSIVE ReadInt(_)
ReadInt(s) ==
    IF s = <<>> THEN 0
    ELSE 10 * ReadInt(SubSeq(s, 1, Len(s) - 1)) + DigitValue(s[Len(s)])

\* The cells of a row, each normalized.
NormRow(r) == [i \in 1..Len(r) |-> _norm_space(r[i])]

\* A call of parse_rows has returned.
Returned == pc = "idle" /\ Len(results) >= 1

\* The scan of the current call is over and its table list is final.
Scanned == pc = "classify"

-----------------------------------------------------------------------------
(* C1 *)

C1Grid == <<<<t_Unit, t_PowerPct, t_Reason>>, <<t_1, t_100, t_None>>>>
C1Docs == {TableDoc(C1Grid), PrettyTableDoc(C1Grid)}

\* C1: for a document holding one well-formed table with the header row
\* ["Unit","Power(%)","Reason"] and the data row ["1","100","None"],
\* parse_rows returns exactly one record, with unit "1", power "100" and
\* reason "None".
C1_PowerPctHeaderOneRecord ==
    (Returned /\ html \in C1Docs) =>
        results[1] = <<Row(report_date, t_1, t_100, t_None)>>

-----------------------------------------------------------------------------
(* C2 *)

\* C2: for a document in which a complete table with a non-blank row is
\* nested inside a cell of a row of an outer table, the table list after
\* the scan has two entries, one the inner table and one the outer table,
\* and the outer entry has a row that begins with the cells of the outer
\* row that came before the nested table.
C2_NestedTableTwoEntries ==
    (Scanned /\ html \in NestedDocs) =>
        \A prev \in NestedPrev, before \in NestedBefore,
           inner \in SmallGrids, after \in NestedAfter :
            html = NestedDoc(prev, before, inner, after) =>
                /\ Len(parser.tables) = 2
                /\ \E i, j \in 1..Len(parser.tables) :
                    /\ i # j
                    /\ parser.tables[i] = inner
                    /\ \E r \in 1..Len(parser.tables[j]) :
                           StartsWith(parser.tables[j][r], before)

-----------------------------------------------------------------------------
(* C3 *)

C3Grid ==
    <<<<t_Unit, t_Power, t_ReasonComment>>, <<t_Unit1, t_97, t_NA>>,
      <<t_Unit2, t_0, t_Refueling>>>>
C3Docs == {TableDoc(C3Grid), PrettyTableDoc(C3Grid)}
C3Line1 == <<"3", "/", "1", "5", "/", "1", "9", "9", "9", "|", "U", "n", "i", "t", " ", "1", "|", "9", "7", "|", "N", "/", "A">>
C3Line2 ==
    <<"3", "/", "1", "5", "/", "1", "9", "9", "9", "|", "U", "n", "i", "t", " ", "2", "|", "0", "|", 
      "R", "e", "f", "u", "e", "l", "i", "n", "g", " ", "O", "u", "t", "a", "g", "e">>

\* C3: for a document with one table whose rows are
\* ["Unit","Power","Reason/Comment"], ["Unit 1","97","N/A"] and
\* ["Unit 2","0","Refueling Outage"] and the report date 1999-03-15,
\* parse_rows returns two records and to_psv turns them into exactly the
\* lines "3/15/1999|Unit 1|97|N/A" and "3/15/1999|Unit 2|0|Refueling Outage",
\* in that order (each written with its newline).
C3_EndToEndLines ==
    (html \in C3Docs /\ report_date = Date(1999, 3, 15)) =>
        /\ Returned => Len(results[1]) = 2
        /\ lines # <<>> =>
               lines = <<C3Line1 \o <<"\n">>, C3Line2 \o <<"\n">>>>

\* The two lines of the scenario have been written.
C3_Witness ==
    /\ html \in C3Docs
    /\ report_date = Date(1999, 3, 15)
    /\ Len(lines) = 2

-----------------------------------------------------------------------------
(* C4 *)

\* The date field of a line: what stands before its first delimiter.
DateField(line) == SplitOn(line, "|")[1]

\* C4, as stated: for every report date of 1999 the date field of the
\* serialized record is MM/DD/YYYY, a two-digit month, a two-digit day and
\* a four-digit year.
C4_DateFieldMMDDYYYY ==
    pc = "psv_done" =>
        LET f == DateField(psv)
        IN /\ Len(f) = 10
           /\ f[3] = "/"
           /\ f[6] = "/"
           /\ AllDigits(SubSeq(f, 1, 2))
           /\ AllDigits(SubSeq(f, 4, 5))
           /\ AllDigits(SubSeq(f, 7, 10))

\* C4, amended: for every report date of 1999 the date field of the
\* serialized record is M/D/YYYY: the month and the day in decimal with no
\* leading zero (one digit for 1-9, two digits otherwise) and a four-digit
\* year, each reading as the date's own month, day and year.
C4_DateFieldMDYYYY ==
    pc = "psv_done" =>
        LET parts == SplitOn(DateField(psv), "/")
            d == row.report_date
        IN /\ Len(parts) = 3
           /\ \A k \in 1..3 : AllDigits(parts[k])
           /\ parts[1][1] # "0"
           /\ parts[2][1] # "0"
           /\ Len(parts[1]) = (IF d.month < 10 THEN 1 ELSE 2)
           /\ Len(parts[2]) = (IF d.day < 10 THEN 1 ELSE 2)
           /\ Len(parts[3]) = 4
           /\ ReadInt(parts[1]) = d.month
           /\ ReadInt(parts[2]) = d.day
           /\ ReadInt(parts[3]) = d.year

\* A record of a one-digit month and a one-digit day has been serialized.
C4_Witness ==
    /\ pc = "psv_done"
    /\ row.report_date.month < 10
    /\ row.report_date.day < 10
    /\ psv # <<>>

-----------------------------------------------------------------------------
(* C5 *)

\* e is what is emitted for field f: a stretch of f with every "|" turned
\* into a space and nothing added, the rest of f being blanks and "|" at
\* its two ends.
EmittedFor(f, e) ==
    \E o \in 0..(Len(f) - Len(e)) :
        /\ \A i \in 1..Len(e) :
               e[i] = (IF f[o + i] = "|" THEN " " ELSE f[o + i])
        /\ \A i \in (1..o) \cup ((o + Len(e) + 1)..Len(f)) :
               f[i] = "|" \/ IsSpace(f[i])

\* C5: whatever characters the unit, power and reason of a record hold,
\* "|" included, the line to_psv returns has exactly three "|", so it
\* splits into exactly four fields; every "|" of a field has become a
\* space and none is escaped.
C5_ThreeDelimiters ==
    pc = "psv_done" =>
        LET parts == SplitOn(psv, "|")
        IN /\ CountChar(psv, "|") = 3
           /\ Len(parts) = 4
           /\ EmittedFor(row.unit, parts[2])
           /\ EmittedFor(row.power, parts[3])
           /\ EmittedFor(row.reason, parts[4])

\* A record with a "|" inside its unit and in its reason has been
\* serialized.
C5_Witness ==
    /\ pc = "psv_done"
    /\ row.unit = <<"a", "|", "a">>
    /\ CountChar(row.reason, "|") >= 1
    /\ psv # <<>>

-----------------------------------------------------------------------------
(* C6 *)

\* C6: when the input ends while a table is still open, the scan ends and
\* every row of that table that was completed before the end of the input
\* with a non-empty cell is in a table of the returned table list.
C6_UnclosedTableRowsKept ==
    (Scanned /\ html \in UnclosedDocs) =>
        \A g \in Grids \cup SmallGrids :
            html = UnclosedTableDoc(g) =>
                \A k \in 1..Len(g) :
                    AnyNonBlank(g[k]) =>
                        \E t \in 1..Len(parser.tables) :
                            \E r \in 1..Len(parser.tables[t]) :
                                parser.tables[t][r] = NormRow(g[k])

-----------------------------------------------------------------------------
(* C7 *)

\* An end tag that closes nothing in extractor state p.
Unmatched(p, tag) ==
    \/ tag = "table" /\ p.in_table = 0
    \/ tag = "tr" /\ ~p.in_tr
    \/ tag \in {"td", "th"} /\ ~p.in_cell

\* C7: an unmatched end tag (a table end at depth 0, a row end while not
\* inside a row, a cell end while not inside a cell) leaves the depth, both
\* flags, the cell buffer, the current row, the current table and the
\* table list as they were; and the depth is never negative, whatever the
\* events.
C7_UnmatchedEndTagNoOp ==
    [][/\ parser'.in_table >= 0
       /\ (event'.kind = "end" /\ nevents' = nevents + 1
               /\ Unmatched(parser, event'.tag)) => parser' = parser]_vars

\* A row end has just been handled inside a table with no row open.
C7_Witness ==
    /\ nevents = 2
    /\ event = EndEv("tr")
    /\ parser.in_table = 1
    /\ ~parser.in_tr

-----------------------------------------------------------------------------
(* C8 *)

\* C8: parse_rows run again on the same document text and report date
\* returns the same record sequence: nothing of an earlier call is seen by
\* a later one.
C8_SecondCallSameRecords ==
    \A i, j \in 1..Len(results) : results[i] = results[j]

\* Two calls have returned, with records.
C8_Witness ==
    /\ Len(results) >= 2
    /\ results[1] # <<>>

-----------------------------------------------------------------------------
(* C9 *)

\* Row r covers columns u and p and its unit is neither empty nor "unit".
CoversAndNamed(r, u, p) ==
    /\ u <= Len(r)
    /\ p <= Len(r)
    /\ _norm_space(r[u]) # <<>>
    /\ LowerStr(_norm_space(r[u])) # s_unit

\* The rows after header h that are to give a record.
Qualifying(table, h, u, p) ==
    {k \in (h + 1)..Len(table) : CoversAndNamed(table[k], u, p)}

\* C9: in a table with a resolved header, a row too short for the unit or
\* the power column gives no record and does not end the table: the
\* records the table adds are exactly those of the rows after the header
\* that cover both columns and have a unit that is neither empty nor
\* "unit", one each, in row order, the rows after a short row included.
C9_ShortRowSkipped ==
    [][(pc = "classify" /\ tidx' = tidx + 1) =>
          LET table == parser.tables[tidx]
              h == HeaderRowIdx(table)
              u == UnitIdx(Lowered(table[h]))
              p == PowerIdx(Lowered(table[h]))
              Q == Qualifying(table, h, u, p)
              new == SubSeq(out', Len(out) + 1, Len(out'))
          IN (h # NoIdx /\ u # NoIdx /\ p # NoIdx) =>
                 /\ Len(new) = Cardinality(Q)
                 /\ \A k \in Q :
                        LET rec == new[Cardinality({j \in Q : j <= k})]
                        IN /\ rec.unit = _norm_space(table[k][u])
                           /\ rec.power = _norm_space(table[k][p])]_vars

\* The one table of the document has been classified: after its header it
\* has a row too short for a column and, later, a row that gave a record.
C9_Witness ==
    /\ pc = "classify"
    /\ tidx = 2
    /\ Len(parser.tables) = 1
    /\ LET table == parser.tables[1]
           h == HeaderRowIdx(table)
           u == UnitIdx(Lowered(table[h]))
           p == PowerIdx(Lowered(table[h]))
       IN /\ h # NoIdx /\ u # NoIdx /\ p # NoIdx
          /\ \E k1, k2 \in (h + 1)..Len(table) :
                 /\ k1 < k2
                 /\ (u > Len(table[k1]) \/ p > Len(table[k1]))
                 /\ CoversAndNamed(table[k2], u, p)
          /\ Len(out) >= 1

-----------------------------------------------------------------------------
(* C10 *)

\* Some cell of the table normalizes to "unit" or to a text that begins
\* with "unit ".
HasUnitCell(table) ==
    \E r \in 1..Len(table) : \E c \in 1..Len(table[r]) :
        LET x == LowerStr(_norm_space(table[r][c]))
        IN x = s_unit \/ StartsWith(x, s_unit \o <<" ">>)

\* Some row of the table has a cell "unit" and a cell that begins with
\* "power": a header row.
HasHeaderRow(table) ==
    \E r \in 1..Len(table) :
        /\ \E c \in 1..Len(table[r]) :
               LowerStr(_norm_space(table[r][c])) = s_unit
        /\ \E c \in 1..Len(table[r]) :
               StartsWith(LowerStr(_norm_space(table[r][c])), s_power)

\* C10: a table none of whose cells normalizes to "unit" or to a text
\* beginning with "unit " adds no record, whatever its rows hold; and a
\* table with no header row adds no record.
C10_NoHeaderNoRecords ==
    [][(/\ pc = "classify"
        /\ tidx' = tidx + 1
        /\ \/ ~HasUnitCell(parser.tables[tidx])
           \/ ~HasHeaderRow(parser.tables[tidx])) => out' = out]_vars

\* The one table of the document has been classified: it has no header
\* row, a first row naming a "Unit Name" and a "Power" column, and a later
\* row with a unit and a power; no record came of it.
C10_Witness ==
    /\ pc = "classify"
    /\ tidx = 2
    /\ Len(parser.tables) = 1
    /\ ~HasHeaderRow(parser.tables[1])
    /\ parser.tables[1][1] = <<t_UnitName, t_Power>>
    /\ \E k \in 2..Len(parser.tables[1]) :
           CoversAndNamed(parser.tables[1][k], 1, 2)
    /\ out = <<>>

\* C11: when parse_rows is called concurrently on independent documents,
\* then under every interleaving of the calls' tag and text events each
\* call scans with an extractor state that only its own events have
\* touched, and it returns the records it returns when run alone.
C11_ConcurrentCallsIndependent ==
    pc = "concurrent" =>
        \A t \in ThreadIds :
            /\ threads[t].pc \in {"feed", "classify", "done"} =>
                   threads[t].parser =
                       feed(TableExtractorInit,
                            SubSeq(threads[t].html, 1, threads[t].pos))
            /\ threads[t].pc = "done" =>
                   threads[t].result =
                       parse_rows(threads[t].report_date, threads[t].html)

\* Two calls on different documents are under way at once: the first
\* has returned its records while the second, started before the first
\* finished scanning, is still in the middle of a cell.
C11_Witness ==
    /\ pc = "concurrent"
    /\ threads[1].pc = "done" /\ threads[1].result # <<>>
    /\ threads[2].pc = "feed"
    /\ threads[1].html # threads[2].html
    /\ threads[2].parser.in_cell /\ threads[2].parser.cell_buf # <<>>
    /\ threads[2].parser.tables = <<>>

\* The number of the day d within 1999.
DayOfYear(d) == Cardinality({x \in Dates1999 : DateLE(x, d)})

\* The step is a pass of main's loop for one day.
IsPass == driver.pc = "loop" /\ driver'.i = driver.i + 1

\* C12: a terminal fetch or parse failure for one day never aborts the
\* run.  The failing day's pass writes no line and adds nothing to the row
\* count and leaves the loop running; the passes take the days of 1999 in
\* ascending order, one day after the other; and the run eventually
\* finishes, after all 365 days have been attempted.
C12_FailureNeverAbortsRun ==
    /\ [][(IsPass /\ driver'.last \in {"fetch_failed", "parse_failed"}) =>
              /\ driver'.written = driver.written
              /\ driver'.total_rows = driver.total_rows
              /\ lines' = <<>>
              /\ driver'.pc = "loop"]_vars
    /\ [][IsPass =>
              /\ driver'.d \in Dates1999
              /\ driver.i >= 1 => driver'.d = NextDay(driver.d)
              /\ driver.i = 0 => driver'.d = iter_start]_vars
    /\ [](driver.pc = "done" =>
              driver.i = 365 /\ driver.d = iter_end
                  /\ DayOfYear(driver.d) = 365)
    /\ <>(driver.pc = "done")

\* A day in the middle of the year has just failed, after days that wrote
\* rows, and the loop is about to attempt the next day.
C12_Witness ==
    /\ pc = "main"
    /\ driver.pc = "loop"
    /\ driver.last = "fetch_failed"
    /\ driver.d = Date(1999, 3, 15)
    /\ driver.next = Date(1999, 3, 16)
    /\ driver.total_rows >= 1
    /\ lines = <<>>

\* C13: a call of fetch_html with no cache hit and retries = N >= 1
\* surfaces its terminal failure only after exactly N failed attempts; when
\* attempt k <= N is the first to succeed, exactly k attempts are made and
\* that attempt's text is returned; a backoff delay is waited after each
\* failed attempt except the N-th (the j-th delay is j times backoff_s);
\* and the call always ends, returning or raising.
C13_RetryBoundedAttempts ==
    /\ [](pc = "fetch" /\ fetcher.cache # "hit" /\ fetcher.retries >= 1
              /\ fetcher.pc = "raised" =>
                  /\ fetcher.failed = fetcher.retries
                  /\ fetcher.runs = fetcher.retries
                  /\ fetcher.sleeps = [j \in 1..(fetcher.retries - 1) |-> j])
    /\ [](pc = "fetch" /\ fetcher.runs >= 1 /\ fetcher.retries >= 1
              /\ fetcher.pc = "returned" =>
                  /\ fetcher.runs <= fetcher.retries
                  /\ fetcher.failed = fetcher.runs - 1
                  /\ fetcher.result = fetcher.stdout
                  /\ fetcher.sleeps = [j \in 1..(fetcher.runs - 1) |-> j])
    /\ [][(fetcher.pc = "try" /\ fetcher'.failed = fetcher.failed + 1) =>
              IF fetcher.attempt = fetcher.retries
              THEN fetcher'.sleeps = fetcher.sleeps
              ELSE fetcher'.sleeps = Append(fetcher.sleeps, fetcher.attempt)
          ]_vars
    /\ <>(fetcher.pc \in {"returned", "raised"})

\* A call with retries = 5 and no cache hit has failed twice, slept twice
\* and then got the page on its third attempt.
C13_Witness ==
    /\ pc = "fetch"
    /\ fetcher.pc = "returned"
    /\ fetcher.retries = 5
    /\ fetcher.runs = 3
    /\ fetcher.failed = 2
    /\ fetcher.sleeps = <<1, 2>>
    /\ fetcher.result = OneRowPage

\* C14: after any sequence of tag and text events, every table of the
\* table list has at least one row and every row of every such table has
\* at least one non-empty cell.
C14_TablesHaveNonBlankRows ==
    \A t \in 1..Len(parser.tables) :
        /\ Len(parser.tables[t]) >= 1
        /\ \A r \in 1..Len(parser.tables[t]) :
               \E c \in 1..Len(parser.tables[t][r]) :
                   parser.tables[t][r][c] # <<>>

\* A table has just been captured whose row holds an empty cell next to
\* a non-empty one, in a scan long enough to have dropped a blank row or
\* an empty table before.
C14_Witness ==
    /\ pc = "scan"
    /\ Len(parser.tables) = 1
    /\ \E r \in 1..Len(parser.tables[1]) :
           /\ \E c \in 1..Len(parser.tables[1][r]) :
                  parser.tables[1][r][c] = <<>>
           /\ \E c \in 1..Len(parser.tables[1][r]) :
                  parser.tables[1][r][c] # <<>>
    /\ event = EndEv("table")
    /\ nevents >= 11

-----------------------------------------------------------------------------
(* C15 *)

\* The row has a cell "unit" and a cell that begins with "power".
UnitAndPowerRow(r) ==
    /\ \E c \in 1..Len(r) : LowerStr(_norm_space(r[c])) = s_unit
    /\ \E c \in 1..Len(r) :
           StartsWith(LowerStr(_norm_space(r[c])), s_power)

\* h is the lowest-index row of the table with both cells.
LowestHeader(table, h) ==
    /\ UnitAndPowerRow(table[h])
    /\ \A j \in 1..(h - 1) : ~UnitAndPowerRow(table[j])

\* c is the first cell of row r that names the unit column, and the first
\* that names the power column.
FirstUnitCell(r, c) ==
    /\ IsUnitHeader(LowerStr(_norm_space(r[c])))
    /\ \A j \in 1..(c - 1) : ~IsUnitHeader(LowerStr(_norm_space(r[j])))

FirstPowerCell(r, c) ==
    /\ IsPowerHeader(LowerStr(_norm_space(r[c])))
    /\ \A j \in 1..(c - 1) : ~IsPowerHeader(LowerStr(_norm_space(r[j])))

\* C15: in each table the header is the lowest-index row with a cell
\* "unit" and a cell beginning with "power"; the unit and power columns are
\* those that row names; and every record the table adds comes from a row
\* after the header, read at those columns: the header row and the rows
\* before it give none.
C15_LowestHeaderRowOnly ==
    [][(pc = "classify" /\ tidx' = tidx + 1) =>
          LET table == parser.tables[tidx]
              new == SubSeq(out', Len(out) + 1, Len(out'))
          IN \A h \in 1..Len(table) :
                 LowestHeader(table, h) =>
                     /\ Len(new) <= Len(table) - h
                     /\ \A u, p \in 1..Len(table[h]) :
                            (FirstUnitCell(table[h], u)
                                 /\ FirstPowerCell(table[h], p)) =>
                                /\ Len(new) =
                                       Cardinality(Qualifying(table, h, u, p))
                                /\ \A n \in 1..Len(new) :
                                       \E k \in (h + 1)..Len(table) :
                                           /\ u <= Len(table[k])
                                           /\ p <= Len(table[k])
                                           /\ new[n].unit =
                                                  _norm_space(table[k][u])
                                           /\ new[n].power =
                                                  _norm_space(table[k][p])
                     /\ (\A u \in 1..Len(table[h]) :
                             ~IsUnitHeader(LowerStr(_norm_space(table[h][u]))))
                            => new = <<>>
                     /\ (\A c \in 1..Len(table[h]) :
                             ~IsPowerHeader(LowerStr(_norm_space(table[h][c]))))
                            => new = <<>>]_vars

\* The one table of the document has been classified: its header is its
\* second row; the first row would read as a status row at the header's
\* columns, and so does the third, which alone gave a record.
C15_Witness ==
    /\ pc = "classify"
    /\ tidx = 2
    /\ Len(parser.tables) = 1
    /\ LET table == parser.tables[1]
       IN /\ Len(table) = 3
          /\ LowestHeader(table, 2)
          /\ \E u, p \in 1..Len(table[2]) :
                 /\ FirstUnitCell(table[2], u)
                 /\ FirstPowerCell(table[2], p)
                 /\ CoversAndNamed(table[1], u, p)
                 /\ CoversAndNamed(table[3], u, p)
                 /\ Len(out) = 1
                 /\ out[1].unit = _norm_space(table[3][u])

-----------------------------------------------------------------------------
(* C16 *)

\* The row reaches both the unit and the power column.
Covers(r, u, p) == u <= Len(r) /\ p <= Len(r)

\* The unit of the row is empty or repeats the header, in any case of
\* letters.
BlankOrEcho(r, u) ==
    \/ _norm_space(r[u]) = <<>>
    \/ LowerStr(_norm_space(r[u])) = s_unit

\* C16: no record has a unit that is empty or equal to "unit" in any case
\* of letters; of the rows after the header that cover the unit and the
\* power column, exactly those whose normalized unit is empty or equals
\* "unit" are skipped; and the reason of a record is empty whenever the
\* reason column is unresolved or lies beyond the end of its row.
C16_UnitNeverBlankOrEcho ==
    [][(pc = "classify" /\ tidx' = tidx + 1) =>
          LET table == parser.tables[tidx]
              h == HeaderRowIdx(table)
              u == UnitIdx(Lowered(table[h]))
              p == PowerIdx(Lowered(table[h]))
              ri == ReasonIdx(Lowered(table[h]))
              covering == {k \in (h + 1)..Len(table) :
                               Covers(table[k], u, p)}
              kept == {k \in covering : ~BlankOrEcho(table[k], u)}
              new == SubSeq(out', Len(out) + 1, Len(out'))
          IN /\ \A n \in 1..Len(out') :
                    out'[n].unit # <<>> /\ LowerStr(out'[n].unit) # s_unit
             /\ (h # NoIdx /\ u # NoIdx /\ p # NoIdx) =>
                    /\ Len(new) = Cardinality(kept)
                    /\ \A k \in kept :
                           LET rec == new[Cardinality({j \in kept : j <= k})]
                           IN /\ rec.unit = _norm_space(table[k][u])
                              /\ (ri = NoIdx \/ ri > Len(table[k])) =>
                                     rec.reason = <<>>
                              /\ (ri # NoIdx /\ ri <= Len(table[k])) =>
                                     rec.reason = _norm_space(table[k][ri])
         ]_vars

\* The one table of the document has been classified: its header names a
\* reason column; one row after it stops short of that column and gave a
\* record with an empty reason; another covers the unit and the power
\* column, repeats the header in its unit and gave none.
C16_Witness ==
    /\ pc = "classify"
    /\ tidx = 2
    /\ Len(parser.tables) = 1
    /\ LET table == parser.tables[1]
           h == HeaderRowIdx(table)
           u == UnitIdx(Lowered(table[h]))
           p == PowerIdx(Lowered(table[h]))
           ri == ReasonIdx(Lowered(table[h]))
       IN /\ h # NoIdx /\ u # NoIdx /\ p # NoIdx /\ ri # NoIdx
          /\ \E k1, k2 \in (h + 1)..Len(table) :
                 /\ Covers(table[k1], u, p)
                 /\ ~BlankOrEcho(table[k1], u)
                 /\ ri > Len(table[k1])
                 /\ Covers(table[k2], u, p)
                 /\ LowerStr(_norm_space(table[k2][u])) = s_unit
          /\ Len(out) = 1
          /\ out[1].reason = <<>>

-----------------------------------------------------------------------------
(* C17 *)

\* The length of the stretch of non-whitespace characters s begins with.
WordLen(s) ==
    CHOOSE n \in 0..Len(s) :
        /\ \A i \in 1..n : ~IsSpace(s[i])
        /\ n = Len(s) \/ IsSpace(s[n + 1])

\* The non-blank tokens of s, in order.
RECURSIVE TokensOf(_)
TokensOf(s) ==
    IF s = <<>> THEN <<>>
    ELSE IF IsSpace(s[1]) THEN TokensOf(Tail(s))
    ELSE <<SubSeq(s, 1, WordLen(s))>>
             \o TokensOf(SubSeq(s, WordLen(s) + 1, Len(s)))

\* The tokens of all segments, in order.
RECURSIVE SegTokens(_)
SegTokens(segs) ==
    IF segs = <<>> THEN <<>>
    ELSE TokensOf(Head(segs)) \o SegTokens(Tail(segs))

\* The tokens with one space between each two.
RECURSIVE SpaceJoined(_)
SpaceJoined(toks) ==
    IF toks = <<>> THEN <<>>
    ELSE IF Len(toks) = 1 THEN toks[1]
    ELSE toks[1] \o <<" ">> \o SpaceJoined(Tail(toks))

\* The cell has no whitespace at either end, no whitespace character but
\* the space and no two spaces in a row.
SingleSpaced(c) ==
    \A i \in 1..Len(c) :
        IsSpace(c[i]) =>
            /\ c[i] = " "
            /\ i > 1 /\ i < Len(c)
            /\ ~IsSpace(c[i + 1])

\* C17: for a cell whose content is text segments separated by <br> or
\* <p> start tags and any whitespace, the value appended at the end of the
\* cell is the non-blank tokens of the segments joined by single spaces,
\* with no whitespace at either end, so that the tokens on the two sides
\* of a break tag are never merged; and no cell of any captured row has
\* two whitespace characters in a row.
C17_BreakTagsSeparateTokens ==
    Scanned =>
        /\ html \in SegDocs =>
               \A segs \in SegSeqs :
                   html = SegCellDoc(segs) =>
                       parser.tables =
                           IF SegTokens(segs) = <<>> THEN <<>>
                           ELSE <<<<<<SpaceJoined(SegTokens(segs))>>>>>>
        /\ \A t \in 1..Len(parser.tables) :
               \A r \in 1..Len(parser.tables[t]) :
                   \A c \in 1..Len(parser.tables[t][r]) :
                       SingleSpaced(parser.tables[t][r][c])

\* The cell "a<br>c \nd <p> b" has been scanned: its value is "a c d b".
C17_Witness ==
    /\ Scanned
    /\ html = SegCellDoc(<<<<"a">>, <<"c", " ", "\n", "d", " ">>,
                           <<" ", "b">>>>)
    /\ parser.tables = <<<<<<<<"a", " ", "c", " ", "d", " ", "b">>>>>>>>

-----------------------------------------------------------------------------
(* C18 *)

\* The rows of table t that are to give a record: none unless the header
\* and the unit and power columns are resolved.
RecordRows(tables, t) ==
    LET table == tables[t]
        h == HeaderRowIdx(table)
        u == UnitIdx(Lowered(table[h]))
        p == PowerIdx(Lowered(table[h]))
    IN IF h = NoIdx THEN {}
       ELSE IF u = NoIdx \/ p = NoIdx THEN {}
       ELSE Qualifying(table, h, u, p)

\* The number of records of the tables before table t.
RECURSIVE RecordsBefore(_, _)
RecordsBefore(tables, t) ==
    IF t <= 1 THEN 0
    ELSE RecordsBefore(tables, t - 1)
             + Cardinality(RecordRows(tables, t - 1))

\* The place, in the returned sequence, of the record of row k of table t.
PlaceOf(tables, t, k) ==
    RecordsBefore(tables, t)
        + Cardinality({j \in RecordRows(tables, t) : j <= k})

\* C18: the returned records keep the order of the document: the records
\* of an earlier table come before those of a later table and, within a
\* table, the records are in the order of their rows; every returned
\* record is the record of one such row.
C18_DocumentOrderKept ==
    Returned =>
        \A n \in 1..Len(results) :
            LET tables == parser.tables
                recs == results[n]
            IN /\ Len(recs) = RecordsBefore(tables, Len(tables) + 1)
               /\ \A t \in 1..Len(tables) :
                      \A k \in RecordRows(tables, t) :
                          LET table == tables[t]
                              headers == Lowered(table[HeaderRowIdx(table)])
                              rec == recs[PlaceOf(tables, t, k)]
                          IN /\ rec.unit =
                                    _norm_space(table[k][UnitIdx(headers)])
                             /\ rec.power =
                                    _norm_space(table[k][PowerIdx(headers)])
                             /\ \A t2 \in 1..Len(tables) :
                                    \A k2 \in RecordRows(tables, t2) :
                                        (t < t2 \/ (t = t2 /\ k < k2)) =>
                                            PlaceOf(tables, t, k)
                                                < PlaceOf(tables, t2, k2)

\* A call on a document of two tables has returned: the two records of the
\* first table, in the order of their rows, and then a different record
\* of the second table.
C18_Witness ==
    /\ Returned
    /\ Len(parser.tables) = 2
    /\ Cardinality(RecordRows(parser.tables, 1)) = 2
    /\ Cardinality(RecordRows(parser.tables, 2)) = 1
    /\ Len(results[1]) = 3
    /\ results[1][1].unit # results[1][2].unit
    /\ results[1][3] # results[1][1]
    /\ results[1][3] # results[1][2]

-----------------------------------------------------------------------------
(* C19 *)

\* C19: row and cell state never leaks across outermost tables: whenever
\* the depth is 0, the in-row and in-cell flags are clear and the current
\* row is empty, also after a table that was closed with its row-end or
\* cell-end tags missing.
C19_NoRowStateAtDepthZero ==
    parser.in_table = 0 =>
        /\ ~parser.in_tr
        /\ ~parser.in_cell
        /\ parser.current_row = <<>>

-----------------------------------------------------------------------------
(* C20 *)

\* C20: the flags are nested: inside a cell implies inside a row, and
\* inside a row implies a depth of at least 1, so that no text is buffered
\* into a cell after the row around it has ended.
C20_FlagsNested ==
    /\ parser.in_cell => parser.in_tr
    /\ parser.in_tr => parser.in_table >= 1

====
